---- MODULE Spec2Model ----
(***************************************************************************)
(* The playback and capture controllers of CanvasReelPlayer.tsx as a state *)
(* machine.  A React function component re-creates its functions on every  *)
(* render; each function sees the plan, isPlaying, width and height of the  *)
(* render that created it.  The model therefore carries, with the handle    *)
(* and with every pending frame callback, the values the function closed    *)
(* over.  Refs (startTimeRef, rafRef, canvasRef) are shared by all renders. *)
(***************************************************************************)
EXTENDS Integers, Sequences, FiniteSets, TLC

VARIABLES
    plan,           \* prop `plan` of the latest render (NoPlan for null)
    width,          \* prop `width` of the latest render
    height,         \* prop `height` of the latest render
    isPlaying,      \* useState value of the latest render
    pending,        \* setIsPlaying calls not yet rendered: <<>> or <<v>> (last call wins)
    startTimeRef,   \* startTimeRef.current
    rafRef,         \* rafRef.current: 0 null, k > 0 the request at rafQueue[k], Stale
    rafQueue,       \* requestAnimationFrame callbacks not yet run, oldest first
    handle,         \* what play/stop/recordFullPlayback of the imperative handle closed over
    canvas,         \* the canvas element: backing width/height and style width/height (px)
    frame,          \* the last frame drawFrame painted
    caps,           \* the recordFullPlayback invocations, in call order
    now,            \* the host clock (performance.now(), frame timestamps)
    mounted,        \* the component is mounted (canvasRef.current is the canvas)
    op,             \* the last call made from outside (handle method or prop change)
    arg,            \* arguments of a pure function under study (<<>> when none)
    res             \* <<its result>> once it has been applied (<<>> before)

controller == <<plan, width, height, isPlaying, pending, startTimeRef, rafRef, rafQueue,
                handle, canvas, frame, caps, now, mounted, op>>

vars == <<plan, width, height, isPlaying, pending, startTimeRef, rafRef, rafQueue,
          handle, canvas, frame, caps, now, mounted, op, arg, res>>

----------------------------------------------------------------------------
(* Program constants and inputs                                            *)

FULL_W == 1080
FULL_H == 1920

NoPlan == 0

\* The plans the page can hand over, each by its beats' durationMs (in clock units).
Plans == << <<1, 2>>, <<>> >>
PlanIds == 1..Len(Plans)

\* The width/height props the page mounts the component with.
InitialViewport == <<360, 640>>

\* The width/height props the component can be rendered with.
Viewports == { InitialViewport, <<400, 640>> }

\* Bounds of the model.
MaxNow == 4
MaxPending == 2
MaxCaptures == 1

Stale == -1

----------------------------------------------------------------------------
(* Pure helpers                                                            *)

RECURSIVE SumSeq(_)
SumSeq(s) == IF s = <<>> THEN 0 ELSE Head(s) + SumSeq(Tail(s))

\* plan?.beats.reduce((a, b) => a + b.durationMs, 0) ?? 0
totalDuration(p) == IF p = NoPlan THEN 0 ELSE SumSeq(Plans[p])

RECURSIVE MaxOver(_)
MaxOver(S) == IF S = {} THEN 0
              ELSE LET x == CHOOSE y \in S : TRUE
                       m == MaxOver(S \ {x})
                   IN  IF x > m THEN x ELSE m

\* The comparison that ends the scan over the beats (line 66).
scanBreaks_inclusive(t, d) == t <= d

scanBreaks(t, d) == t < d

\* The scan of drawFrame over plan.beats from position i (1-based):
\*   if (t < d) { beatIndex = i; break; }  t -= d; beatStart += d;
\* beatIndex (0-based, as in the source) keeps its initial 0 when no beat breaks.
RECURSIVE scanBeats(_, _, _, _)
scanBeats(beats, i, t, beatStart) ==
    IF i > Len(beats) THEN [beatIndex |-> 0, t |-> t, beatStart |-> beatStart]
    ELSE IF scanBreaks(t, beats[i])
         THEN [beatIndex |-> i - 1, t |-> t, beatStart |-> beatStart]
         ELSE scanBeats(beats, i + 1, t - beats[i], beatStart + beats[i])

\* Lines 62-72: the beat drawn at `elapsed` and the progress within it,
\* Math.min(1, Math.max(0, t / beat.durationMs)) as the fraction num/den;
\* 0 when plan.beats[beatIndex] is undefined.
beatLookup(beats, elapsed) ==
    LET r == scanBeats(beats, 1, elapsed, 0)
        d == IF r.beatIndex + 1 <= Len(beats) THEN beats[r.beatIndex + 1] ELSE 0
    IN  [beatIndex |-> r.beatIndex, t |-> r.t, beatStart |-> r.beatStart,
         progress |-> IF d = 0 THEN [num |-> 0, den |-> 1]
                      ELSE [num |-> IF r.t < 0 THEN 0 ELSE IF r.t > d THEN d ELSE r.t,
                            den |-> d]]

\* plan?.beats, nothing for plan = null
beatsOf(p) == IF p = NoPlan THEN <<>> ELSE Plans[p]

MaxDuration == MaxOver({ totalDuration(p) : p \in PlanIds })

\* An operation that anchors a timeline starts early enough for the bounded
\* clock to reach the end of the longest plan.
StartBy == MaxNow - MaxDuration

Closure(p, playing, w, h) == [plan |-> p, isPlaying |-> playing, width |-> w, height |-> h]

\* The sizing effect: scale = min(FULL_W / width, FULL_H / height),
\* c.width = floor(width * scale), c.height = floor(height * scale).
PreviewCanvas(w, h) ==
    IF FULL_W * h <= FULL_H * w
    THEN [w |-> (w * FULL_W) \div w, h |-> (h * FULL_W) \div w, sw |-> w, sh |-> h]
    ELSE [w |-> (w * FULL_H) \div h, h |-> (h * FULL_H) \div h, sw |-> w, sh |-> h]

\* recordFullPlayback's resize to the export size.
FullCanvas == [w |-> FULL_W, h |-> FULL_H, sw |-> FULL_W, sh |-> FULL_H]

\* recordFullPlayback's restoration: floor(FULL_W * (width / FULL_W)) etc.
RestoredCanvas(w, h) ==
    [w |-> (FULL_W * w) \div FULL_W, h |-> (FULL_H * h) \div FULL_H, sw |-> w, sh |-> h]

\* drawFrame(elapsed) of a render that closed over cl, painting canvas cv.
\* Without a canvas (canvasRef.current is null) it returns without painting.
paint(cl, elapsed, cv) ==
    LET b == beatLookup(beatsOf(cl.plan), elapsed)
    IN  [elapsed |-> elapsed, plan |-> cl.plan, w |-> cv.w, h |-> cv.h,
         beatIndex |-> b.beatIndex, t |-> b.t, progress |-> b.progress]

drawFrame(cl, elapsed, cv, cur) ==
    IF mounted THEN paint(cl, elapsed, cv) ELSE cur

Remove(q, k) == [i \in 1..(Len(q) - 1) |-> IF i < k THEN q[i] ELSE q[i + 1]]

\* rafRef after the request at position k has left the queue.
Shift(r, k) == IF r = k THEN Stale ELSE IF r > k THEN r - 1 ELSE r

\* The value of isPlaying once the pending update is rendered.
Running == IF pending = <<>> THEN isPlaying ELSE pending[1]

\* A resolved `done` promise whose continuation has not run yet: it runs
\* before any other task.
NoMicrotask == \A i \in 1..Len(caps) : caps[i].phase # "resuming"

Called(name, outcome) == [name |-> name, outcome |-> outcome, seq |-> 1 - op.seq]

----------------------------------------------------------------------------
(* Initial state: mounted with plan = null, the sizing effect has run.      *)

ControllerInit ==
    /\ plan = NoPlan
    /\ width = InitialViewport[1] /\ height = InitialViewport[2]
    /\ isPlaying = FALSE
    /\ pending = <<>>
    /\ startTimeRef = 0
    /\ rafRef = 0
    /\ rafQueue = <<>>
    /\ handle = Closure(NoPlan, FALSE, width, height)
    /\ canvas = PreviewCanvas(width, height)
    /\ frame = paint(handle, 0, canvas)
    /\ caps = <<>>
    /\ now = 1
    /\ mounted = TRUE
    /\ op = [name |-> "mount", outcome |-> "ok", seq |-> 0]

Init ==
    /\ ControllerInit
    /\ arg = <<>> /\ res = <<>>

----------------------------------------------------------------------------
(* The imperative handle                                                   *)

playReturns_ignoresPlan(cl) == cl.isPlaying

\* play: `if (!plan || isPlaying) return;`
playReturns(cl) == cl.plan = NoPlan \/ cl.isPlaying

play ==
    /\ mounted /\ NoMicrotask
    /\ IF playReturns(handle)
       THEN /\ op' = Called("play", "returned")
            /\ UNCHANGED <<pending, startTimeRef, rafRef, rafQueue>>
       ELSE /\ Len(rafQueue) < MaxPending /\ now <= StartBy
            /\ pending' = <<TRUE>>
            /\ startTimeRef' = now
            /\ rafQueue' = Append(rafQueue, [kind |-> "tick", cl |-> handle, cap |-> 0])
            /\ rafRef' = Len(rafQueue) + 1
            /\ op' = Called("play", "started")
    /\ UNCHANGED <<plan, width, height, isPlaying, handle, canvas, frame, caps, now, mounted>>
    /\ UNCHANGED <<arg, res>>

\* stop: cancels the request rafRef holds, if it is still pending.
stop ==
    /\ mounted /\ NoMicrotask
    /\ pending' = <<FALSE>>
    /\ startTimeRef' = 0
    /\ rafQueue' = IF rafRef > 0 THEN Remove(rafQueue, rafRef) ELSE rafQueue
    /\ rafRef' = IF rafRef > 0 THEN Stale ELSE rafRef
    /\ frame' = drawFrame(handle, 0, canvas, frame)
    \* history: a capture whose encoder is still recording has been stopped from outside
    /\ caps' = [i \in 1..Len(caps) |->
                  IF caps[i].recorder = "recording"
                  THEN [caps[i] EXCEPT !.stopped = TRUE] ELSE caps[i]]
    /\ op' = Called("stop", "returned")
    /\ UNCHANGED <<plan, width, height, isPlaying, handle, canvas, now, mounted>>
    /\ UNCHANGED <<arg, res>>

\* What can happen to the encoder while recordFullPlayback sets it up:
\* `new MediaRecorder(...)` (line 167) or `recorder.start()` (line 173) throws.
EncoderOutcomes == {"ok", "ctorThrows", "startThrows"}

\* recorder.start() has returned (line 173)
recorderStarted(enc) == enc = "ok"

loopScheduled_beforeStart(enc) == enc # "ctorThrows"

\* requestAnimationFrame(loop) (line 189) is reached
loopScheduled(enc) == enc = "ok"

\* recordFullPlayback up to `await done`: throws without a plan; otherwise
\* snapshots and resizes the canvas, creates and starts the recorder, anchors
\* the clock and schedules the capture loop.  An exception of the recorder
\* leaves the function at that line and rejects the returned promise.
recordFullPlayback(enc) ==
    /\ mounted /\ NoMicrotask
    /\ IF handle.plan = NoPlan
       THEN /\ op' = Called("recordFullPlayback", "threw")
            /\ UNCHANGED <<pending, startTimeRef, rafQueue, canvas, caps>>
       ELSE /\ Len(caps) < MaxCaptures /\ Len(rafQueue) < MaxPending /\ now <= StartBy
            /\ canvas' = FullCanvas
            /\ caps' = Append(caps,
                 [phase |-> IF enc = "ok" THEN "awaiting" ELSE "rejected",
                  prev |-> canvas, cl |-> handle,
                  recorder |-> IF recorderStarted(enc) THEN "recording" ELSE "inactive",
                  started |-> recorderStarted(enc),
                  stopped |-> FALSE, final |-> FALSE, stops |-> 0, restored |-> FALSE])
            /\ pending' = IF enc = "ok" THEN <<TRUE>> ELSE pending
            /\ startTimeRef' = IF enc = "ok" THEN now ELSE startTimeRef
            /\ rafQueue' = IF loopScheduled(enc)
                           THEN Append(rafQueue, [kind |-> "loop", cl |-> handle,
                                                  cap |-> Len(caps) + 1])
                           ELSE rafQueue
            /\ op' = Called("recordFullPlayback", IF enc = "ok" THEN "awaiting" ELSE "rejected")
    /\ UNCHANGED <<plan, width, height, isPlaying, rafRef, handle, frame, now, mounted>>
    /\ UNCHANGED <<arg, res>>

----------------------------------------------------------------------------
(* Frame callbacks: the oldest pending request runs with timestamp `now`.   *)

\* tick, created by the render that closed over Head(rafQueue).cl
tick ==
    /\ rafQueue # <<>> /\ Head(rafQueue).kind = "tick" /\ NoMicrotask
    /\ LET cl == Head(rafQueue).cl
           rest == Tail(rafQueue)
           r == Shift(rafRef, 1)
           elapsed == now - startTimeRef
       IN  IF ~cl.isPlaying \/ startTimeRef = 0
           THEN /\ rafQueue' = rest /\ rafRef' = r
                /\ UNCHANGED <<frame, pending, startTimeRef>>
           ELSE IF elapsed >= totalDuration(cl.plan)
           THEN /\ frame' = drawFrame(cl, totalDuration(cl.plan), canvas, frame)
                /\ pending' = <<FALSE>>
                /\ startTimeRef' = 0
                /\ rafQueue' = rest /\ rafRef' = r
           ELSE /\ frame' = drawFrame(cl, elapsed, canvas, frame)
                /\ rafQueue' = Append(rest, Head(rafQueue))
                /\ rafRef' = Len(rest) + 1
                /\ UNCHANGED <<pending, startTimeRef>>
    /\ UNCHANGED <<plan, width, height, isPlaying, handle, canvas, caps, now, mounted, op>>
    /\ UNCHANGED <<arg, res>>

\* loop: `if (!isPlaying) return; // early stop`
loopReturns(cl) == ~cl.isPlaying

\* loop of the recordFullPlayback invocation Head(rafQueue).cap
loop ==
    /\ rafQueue # <<>> /\ Head(rafQueue).kind = "loop" /\ NoMicrotask
    /\ LET cl == Head(rafQueue).cl
           i == Head(rafQueue).cap
           rest == Tail(rafQueue)
           elapsed == now - startTimeRef
       IN  IF loopReturns(cl)
           THEN /\ rafQueue' = rest
                /\ UNCHANGED <<frame, pending, caps>>
           ELSE IF elapsed >= totalDuration(cl.plan)
           THEN /\ frame' = drawFrame(cl, totalDuration(cl.plan), canvas, frame)
                /\ pending' = <<FALSE>>
                \* recorder.stop(): the stop event is delivered later; a recorder
                \* that is no longer recording delivers no second one
                /\ caps' = [caps EXCEPT ![i].recorder = IF @ = "recording" THEN "stopping" ELSE @,
                                        ![i].final = mounted,
                                        ![i].stops = @ + 1]
                /\ rafQueue' = rest
           ELSE /\ frame' = drawFrame(cl, elapsed, canvas, frame)
                /\ rafQueue' = Append(rest, Head(rafQueue))
                /\ UNCHANGED <<pending, caps>>
    /\ rafRef' = Shift(rafRef, 1)
    /\ UNCHANGED <<plan, width, height, isPlaying, startTimeRef, handle, canvas, now, mounted, op>>
    /\ UNCHANGED <<arg, res>>

----------------------------------------------------------------------------
(* The encoder and the rest of recordFullPlayback                           *)

\* recorder.onstop: resolves `done` with the blob
onstop(i) ==
    /\ NoMicrotask
    /\ caps[i].recorder = "stopping"
    /\ caps' = [caps EXCEPT ![i].recorder = "inactive", ![i].phase = "resuming"]
    /\ UNCHANGED <<plan, width, height, isPlaying, pending, startTimeRef, rafRef, rafQueue,
                   handle, canvas, frame, now, mounted, op>>
    /\ UNCHANGED <<arg, res>>

\* after `await done`: restore the canvas for the UI, draw frame 0, return the blob
resume(i) ==
    /\ caps[i].phase = "resuming"
    /\ canvas' = RestoredCanvas(caps[i].cl.width, caps[i].cl.height)
    /\ frame' = drawFrame(caps[i].cl, 0, canvas', frame)
    /\ caps' = [caps EXCEPT ![i].phase = "resolved", ![i].restored = TRUE]
    /\ UNCHANGED <<plan, width, height, isPlaying, pending, startTimeRef, rafRef, rafQueue,
                   handle, now, mounted, op>>
    /\ UNCHANGED <<arg, res>>

----------------------------------------------------------------------------
(* Renders                                                                  *)

\* A render caused by setIsPlaying alone.  useImperativeHandle re-creates the
\* handle when plan, isPlaying or totalDuration differ from the last render.
render ==
    /\ mounted /\ NoMicrotask
    /\ pending # <<>>
    /\ isPlaying' = pending[1]
    /\ pending' = <<>>
    /\ handle' = IF pending[1] # isPlaying
                 THEN Closure(plan, pending[1], width, height) ELSE handle
    /\ UNCHANGED <<plan, width, height, startTimeRef, rafRef, rafQueue, canvas, frame,
                   caps, now, mounted, op>>
    /\ UNCHANGED <<arg, res>>

\* The page replaces the plan (onGenerate): a render with a new plan object,
\* after which the sizing effect runs.
loadPlan(p) ==
    /\ mounted /\ NoMicrotask
    /\ plan' = p
    /\ isPlaying' = Running
    /\ pending' = <<>>
    /\ handle' = Closure(p, Running, width, height)
    /\ canvas' = PreviewCanvas(width, height)
    /\ frame' = drawFrame(handle', 0, canvas', frame)
    /\ op' = Called("loadPlan", "rendered")
    /\ UNCHANGED <<width, height, startTimeRef, rafRef, rafQueue, caps, now, mounted>>
    /\ UNCHANGED <<arg, res>>

\* The width/height props change: a render, after which the sizing effect runs.
setViewport(w, h) ==
    /\ mounted /\ NoMicrotask
    /\ <<w, h>> # <<width, height>>
    /\ width' = w /\ height' = h
    /\ isPlaying' = Running
    /\ pending' = <<>>
    /\ handle' = IF Running # isPlaying THEN Closure(plan, Running, w, h) ELSE handle
    /\ canvas' = PreviewCanvas(w, h)
    /\ frame' = drawFrame(Closure(plan, Running, w, h), 0, canvas', frame)
    /\ op' = Called("setViewport", "rendered")
    /\ UNCHANGED <<plan, startTimeRef, rafRef, rafQueue, caps, now, mounted>>
    /\ UNCHANGED <<arg, res>>

\* Unmount: the cleanup effect cancels the request rafRef holds.
unmount ==
    /\ mounted /\ NoMicrotask
    /\ mounted' = FALSE
    /\ rafQueue' = IF rafRef > 0 THEN Remove(rafQueue, rafRef) ELSE rafQueue
    /\ rafRef' = IF rafRef > 0 THEN Stale ELSE rafRef
    /\ UNCHANGED <<plan, width, height, isPlaying, pending, startTimeRef, handle, canvas,
                   frame, caps, now, op>>
    /\ UNCHANGED <<arg, res>>

\* The host clock advances.
advance ==
    /\ NoMicrotask
    /\ now < MaxNow
    /\ now' = now + 1
    /\ UNCHANGED <<plan, width, height, isPlaying, pending, startTimeRef, rafRef, rafQueue,
                   handle, canvas, frame, caps, mounted, op>>
    /\ UNCHANGED <<arg, res>>

----------------------------------------------------------------------------

Next ==
    \/ play
    \/ stop
    \/ \E enc \in EncoderOutcomes : recordFullPlayback(enc)
    \/ tick
    \/ loop
    \/ \E i \in 1..Len(caps) : onstop(i)
    \/ \E i \in 1..Len(caps) : resume(i)
    \/ render
    \/ \E p \in PlanIds : loadPlan(p)
    \/ \E v \in Viewports : setViewport(v[1], v[2])
    \/ unmount
    \/ advance

Spec == Init /\ [][Next]_vars

\* Frame callbacks keep firing, the clock advances, the encoder delivers its
\* stop event, awaited continuations run and scheduled renders happen.
Fairness ==
    /\ WF_vars(tick)
    /\ WF_vars(loop)
    /\ WF_vars(\E i \in 1..Len(caps) : onstop(i))
    /\ WF_vars(\E i \in 1..Len(caps) : resume(i))
    /\ WF_vars(render)
    /\ WF_vars(advance)

FairSpec == Init /\ [][Next]_vars /\ Fairness

----------------------------------------------------------------------------
(* The beat lookup of drawFrame on its own, over bounded plans             *)

MaxBeats == 3
MaxBeatMs == 4
MaxElapsed == 13

RECURSIVE SeqsUpTo(_, _)
SeqsUpTo(S, n) ==
    IF n = 0 THEN { <<>> }
    ELSE LET shorter == SeqsUpTo(S, n - 1)
         IN  shorter \cup { Append(q, x) : q \in { r \in shorter : Len(r) = n - 1 }, x \in S }

\* plan.beats by durationMs, and the elapsed time handed to drawFrame
BeatInputs == SeqsUpTo(1..MaxBeatMs, MaxBeats) \X (0..MaxElapsed)

BeatInit ==
    /\ ControllerInit
    /\ arg \in BeatInputs
    /\ res = <<>>

lookup ==
    /\ arg # <<>> /\ res = <<>>
    /\ res' = << beatLookup(arg[1], arg[2]) >>
    /\ UNCHANGED <<controller, arg>>

BeatNext == lookup

BeatSpec == BeatInit /\ [][BeatNext]_vars

----------------------------------------------------------------------------
(* wrapText over bounded texts.  A string is the sequence of its           *)
(* characters; measureText adds up a positive width per character.         *)

MaxTextLen == 6
MaxWidth == 4

Chars == {"a", "W", " "}

charWidth(c) == IF c = "W" THEN 2 ELSE 1

\* ctx.measureText(s).width
RECURSIVE measureText(_)
measureText(str) == IF str = <<>> THEN 0 ELSE charWidth(Head(str)) + measureText(Tail(str))

\* text.split(' '): every space ends a word, so consecutive, leading and
\* trailing spaces give empty words, and '' gives [''].
RECURSIVE splitFrom(_, _, _)
splitFrom(text, word, words) ==
    IF text = <<>> THEN Append(words, word)
    ELSE IF Head(text) = " "
         THEN splitFrom(Tail(text), <<>>, Append(words, word))
         ELSE splitFrom(Tail(text), Append(word, Head(text)), words)

split(text) == splitFrom(text, <<>>, <<>>)

\* Truthiness of a string: '' is falsy.
truthy_always(str) == TRUE

truthy(str) == str # <<>>

\* wWidth > maxWidth (line 23)
overflows_lenient(wWidth, maxWidth) == wWidth > maxWidth + 1

overflows(wWidth, maxWidth) == wWidth > maxWidth

\* The for loop of wrapText over the remaining words, and the final push.
RECURSIVE wrapLoop(_, _, _, _)
wrapLoop(words, lines, current, maxWidth) ==
    IF words = <<>>
    THEN IF truthy(current) THEN Append(lines, current) ELSE lines
    ELSE LET w == Head(words)
             test == IF truthy(current) THEN current \o <<" ">> \o w ELSE w
         IN  IF overflows(measureText(test), maxWidth) /\ truthy(current)
             THEN wrapLoop(Tail(words), Append(lines, current), w, maxWidth)
             ELSE wrapLoop(Tail(words), lines, test, maxWidth)

wrapText(text, maxWidth) == wrapLoop(split(text), <<>>, <<>>, maxWidth)

WrapInputs == SeqsUpTo(Chars, MaxTextLen) \X (0..MaxWidth)

WrapInit ==
    /\ ControllerInit
    /\ arg \in WrapInputs
    /\ res = <<>>

wrap ==
    /\ arg # <<>> /\ res = <<>>
    /\ res' = << wrapText(arg[1], arg[2]) >>
    /\ UNCHANGED <<controller, arg>>

WrapNext == wrap

WrapSpec == WrapInit /\ [][WrapNext]_vars

----------------------------------------------------------------------------
TypeOK ==
    /\ plan \in {NoPlan} \cup PlanIds
    /\ <<width, height>> \in Viewports
    /\ isPlaying \in BOOLEAN
    /\ pending \in {<<>>, <<TRUE>>, <<FALSE>>}
    /\ startTimeRef \in 0..MaxNow
    /\ rafRef \in {Stale} \cup 0..Len(rafQueue)
    /\ Len(rafQueue) <= MaxPending
    /\ Len(caps) <= MaxCaptures
    /\ now \in 1..MaxNow
    /\ mounted \in BOOLEAN

----------------------------------------------------------------------------
(* Vocabulary of the claims                                                 *)

Caps == 1..MaxCaptures

TickPending(q) == { k \in 1..Len(q) : q[k].kind = "tick" }
LoopPending(q) == { k \in 1..Len(q) : q[k].kind = "loop" }
LoopOf(q, i) == { k \in LoopPending(q) : q[k].cap = i }

\* The step is a call made from outside (op.seq flips on every such call).
CallStep(name) == op'.seq # op.seq /\ op'.name = name

----------------------------------------------------------------------------
(* C1 .. C10                                                                *)

\* C1: a capture that has started and is not stopped from outside eventually
\* renders the frame for totalDuration, finalizes the encoder and resolves with
\* an artifact.  In the form a finite run refutes: while such a capture is
\* awaiting, its loop callback is pending or the encoder has been asked to
\* finalize, for nothing else can ever resolve it.
C1_CaptureCanFinish ==
    \A i \in 1..Len(caps) :
        (caps[i].phase = "awaiting" /\ ~caps[i].stopped)
            => (LoopOf(rafQueue, i) # {} \/ caps[i].recorder = "stopping")

\* C2: every capture that has resized the canvas eventually runs its
\* restoration step, stopped from outside or not.  In the form a finite run
\* refutes: when the capture loop ends, the encoder has been asked to finalize
\* (restoration follows its stop event) or the restoration has run.
C2_LoopEndRestores ==
    [][loop => LET i == Head(rafQueue).cap
               IN  LoopOf(rafQueue', i) = {}
                       => (caps'[i].recorder = "stopping" \/ caps'[i].restored)]_vars

\* The same two claims as liveness properties; both are violated under FairSpec.
CaptureEventuallyResolves ==
    \A i \in Caps :
        (i <= Len(caps) /\ caps[i].phase = "awaiting")
            ~> (i <= Len(caps) /\ (caps[i].phase = "resolved" \/ caps[i].stopped))

RestorationEventuallyRuns ==
    \A i \in Caps :
        (i <= Len(caps)) ~> (i <= Len(caps) /\ caps[i].restored)

\* C3: a capture that stop() was called on while its encoder was still
\* recording never resolves with a blob.
C3_CancelledNoArtifact ==
    \A i \in 1..Len(caps) : caps[i].stopped => caps[i].phase # "resolved"

\* C4: when recordFullPlayback returns, the canvas has the backing and style
\* size it had immediately before the call.
C4_GeometryRoundTrip ==
    [][\A i \in 1..Len(caps) :
          (caps[i].phase = "resuming" /\ caps'[i].phase = "resolved")
              => canvas' = caps[i].prev]_vars

\* C5: a preview tick and a capture loop callback are never pending together.
C5_MutualExclusion ==
    TickPending(rafQueue) = {} \/ LoopPending(rafQueue) = {}

\* C6: after play() twice in a row exactly one preview callback is scheduled,
\* the one rafRef holds.
C6_PlayIdempotent ==
    [][(op.name = "play" /\ op.outcome = "started" /\ CallStep("play"))
          => /\ Cardinality(TickPending(rafQueue')) = 1
             /\ rafRef' \in TickPending(rafQueue')]_vars

\* C7: a preview tick that runs after play() (no other call since) renders the
\* frame for elapsed and schedules the next tick, or at the end of the timeline
\* renders the final frame and leaves the controller Idle.
C7_PreviewTickRuns ==
    [][(tick /\ op.name = "play" /\ Running /\ startTimeRef # 0)
          => LET elapsed == now - startTimeRef
                 total == totalDuration(plan)
             IN  IF elapsed < total
                 THEN frame'.elapsed = elapsed /\ TickPending(rafQueue') # {}
                 ELSE /\ frame'.elapsed = total
                      /\ ~Running' /\ startTimeRef' = 0
                      /\ TickPending(rafQueue') = {}]_vars

\* C8: right after stop() the controller is not running, the anchor is unset,
\* no preview callback is pending and the frame drawn is the one for elapsed 0.
C8_StopPostcondition ==
    [][CallStep("stop")
          => /\ ~Running'
             /\ startTimeRef' = 0
             /\ TickPending(rafQueue') = {}
             /\ frame'.elapsed = 0]_vars

\* C9: with no plan loaded, play() and recordFullPlayback() change nothing of
\* the canvas, the running flag, the anchor, the scheduled callbacks or the
\* captures, and recordFullPlayback() fails.
C9_NoPlanNoChange ==
    [][(plan = NoPlan /\ (CallStep("play") \/ CallStep("recordFullPlayback")))
          => /\ UNCHANGED <<canvas, isPlaying, pending, startTimeRef, rafRef, rafQueue, caps>>
             /\ (op'.name = "recordFullPlayback" => op'.outcome = "threw")]_vars

\* C9 witness: recordFullPlayback() has just thrown with no plan loaded.
C9_Witness ==
    plan = NoPlan /\ op.name = "recordFullPlayback" /\ op.outcome = "threw"

\* C10: a plan or viewport change while Running leaves the frame for elapsed 0
\* drawn and the controller Idle (not running, anchor unset, no tick pending).
C10_ChangeResets ==
    [][((CallStep("loadPlan") \/ CallStep("setViewport")) /\ Running)
          => /\ frame'.elapsed = 0
             /\ ~Running'
             /\ startTimeRef' = 0
             /\ TickPending(rafQueue') = {}]_vars

----------------------------------------------------------------------------
(* C11 .. C20                                                               *)

\* C11: after the component is unmounted no frame callback (a preview tick or
\* a capture loop) is still pending, whatever state it was unmounted in.
C11_TeardownCancelsAll ==
    ~mounted => rafQueue = <<>>

\* C12: a capture whose encoder failed (on construction or on start) never
\* resolves with a blob, and when recordFullPlayback ends
\* with the failure the canvas is back at its preview geometry (the snapshot,
\* or what the restoration step computes).
C12_EncoderFailureRestores ==
    [][\A i \in 1..Len(caps') :
          ~caps'[i].started
              => /\ caps'[i].phase # "resolved"
                 /\ (caps'[i].phase = "rejected" /\ (i > Len(caps) \/ caps[i].phase # "rejected"))
                        => canvas' \in { caps'[i].prev,
                                         RestoredCanvas(caps'[i].cl.width, caps'[i].cl.height) }]_vars

\* C13: in every capture recorder.stop() is requested at most once and only
\* after the capture loop has painted the frame for elapsed = totalDuration;
\* the promise resolves only after the recorder's stop event; once stop has
\* been requested no callback of that capture's loop is left to paint.
C13_FinalizeOrdering ==
    \A i \in 1..Len(caps) :
        /\ caps[i].stops <= 1
        /\ caps[i].stops >= 1 => caps[i].final
        /\ caps[i].phase \in {"resuming", "resolved"}
               => caps[i].started /\ caps[i].recorder = "inactive"
        /\ caps[i].stops >= 1 => LoopOf(rafQueue, i) = {}

\* C14: for a non-empty plan and elapsed >= totalDuration the lookup gives
\* the last beat, with intra-beat elapsed equal to that beat's durationMs and
\* progress 1.
C14_TerminalBeat ==
    (res # <<>> /\ arg[1] # <<>> /\ arg[2] >= SumSeq(arg[1]))
        => /\ res[1].beatIndex = Len(arg[1]) - 1
           /\ res[1].t = arg[1][Len(arg[1])]
           /\ res[1].progress.num = res[1].progress.den

\* Cumulative start of beat i (1-based), summed independently of the scan.
cumulativeStart(beats, i) == SumSeq(SubSeq(beats, 1, i - 1))

\* C15: for a non-empty plan with positive durations and 0 <= elapsed <
\* totalDuration the lookup gives the one beat i with cumulative start <=
\* elapsed < cumulative end, intra-beat elapsed = elapsed - cumulative start
\* and progress = intra / durationMs.
C15_BeatLookup ==
    (res # <<>> /\ arg[1] # <<>> /\ arg[2] < SumSeq(arg[1]))
        => LET beats == arg[1]
               e == arg[2]
               hits == { i \in 1..Len(beats) :
                           /\ cumulativeStart(beats, i) <= e
                           /\ e < cumulativeStart(beats, i) + beats[i] }
           IN  /\ Cardinality(hits) = 1
               /\ \A i \in hits :
                     /\ res[1].beatIndex = i - 1
                     /\ res[1].t = e - cumulativeStart(beats, i)
                     /\ res[1].progress = [num |-> e - cumulativeStart(beats, i), den |-> beats[i]]

\* Scenario B in units of 500 ms: beats of 1000 and 2000 ms at elapsed 1500
\* resolve to the second beat with 500 ms inside it.
C15_Witness ==
    /\ arg = << <<2, 4>>, 3 >>
    /\ res = << [beatIndex |-> 1, t |-> 1, beatStart |-> 2, progress |-> [num |-> 1, den |-> 4]] >>

\* The non-empty words of a string, in order.
wordsIn(str) == SelectSeq(split(str), LAMBDA w : w # <<>>)

RECURSIVE wordsOfLines(_)
wordsOfLines(lines) ==
    IF lines = <<>> THEN <<>> ELSE wordsIn(Head(lines)) \o wordsOfLines(Tail(lines))

\* C16: every line wrapText returns is no wider than maxWidth or is exactly
\* one word, and the words of the lines, in order, are the non-empty words of
\* the text (none dropped, duplicated or reordered).
C16_WrapWidthBound ==
    res # <<>>
        => /\ \A k \in 1..Len(res[1]) :
                 \/ measureText(res[1][k]) <= arg[2]
                 \/ /\ res[1][k] # <<>>
                    /\ \A j \in 1..Len(res[1][k]) : res[1][k][j] # " "
           /\ wordsOfLines(res[1]) = wordsIn(arg[1])

\* "a a WW" at maxWidth 3: a full line and a single word wider than the limit.
C16_Witness ==
    /\ arg = << <<"a", " ", "a", " ", "W", "W">>, 3 >>
    /\ res = << << <<"a", " ", "a">>, <<"W", "W">> >> >>

\* lines.join(' ')
RECURSIVE join(_)
join(lines) ==
    IF lines = <<>> THEN <<>>
    ELSE IF Len(lines) = 1 THEN lines[1]
    ELSE lines[1] \o <<" ">> \o join(Tail(lines))

\* C17: wrapping the lines of a result, rejoined with single spaces, at the
\* same maxWidth gives the same lines again.
C17_WrapIdempotent ==
    res # <<>> => wrapText(join(res[1]), arg[2]) = res[1]

\* " a  a " at maxWidth 2: leading, consecutive and trailing spaces, two
\* lines, and the rejoined text differs from the input.
C17_Witness ==
    /\ arg = << <<" ", "a", " ", " ", "a", " ">>, 2 >>
    /\ res # <<>>
    /\ Len(res[1]) = 2
    /\ join(res[1]) # arg[1]

\* C18: a frame callback of a capture's loop is pending only if that
\* capture's recorder.start() has been called, so the loop never paints a
\* frame for an encoder that is not yet recording.
C18_EncoderStartsFirst ==
    \A k \in LoopPending(rafQueue) : caps[rafQueue[k].cap].started

\* A live capture loop has painted a frame past the start and is pending again.
C18_Witness ==
    \E k \in LoopPending(rafQueue) :
        /\ caps[rafQueue[k].cap].started
        /\ caps[rafQueue[k].cap].recorder = "recording"
        /\ rafQueue[k].cl.isPlaying
        /\ frame.elapsed > 0

\* C19: every frame the capture loop paints while the recorder is recording
\* is painted on a canvas whose backing size is FULL_W x FULL_H, whatever
\* plan or width/height changes happen during the capture.
C19_CaptureFramesFullSize ==
    [][(/\ rafQueue # <<>> /\ Head(rafQueue).kind = "loop"
        /\ loop
        /\ caps[Head(rafQueue).cap].recorder = "recording"
        /\ ~loopReturns(Head(rafQueue).cl)
        /\ mounted)
            => frame'.w = FULL_W /\ frame'.h = FULL_H]_vars

\* No state update waits for a render and no recordFullPlayback is still
\* awaiting its recorder or about to continue.
Quiescent ==
    /\ pending = <<>>
    /\ \A i \in 1..Len(caps) : caps[i].phase \in {"resolved", "rejected"}

\* C20: in every quiescent state, not running implies the anchor is unset
\* (startTimeRef = 0).
C20_AnchorUnsetWhenIdle ==
    (Quiescent /\ ~isPlaying) => startTimeRef = 0

\* A capture started through a handle that closed over isPlaying = TRUE does
\* run to the end and restores the canvas (holds under FairSpec): the bounded
\* clock and the bounded queue do not by themselves keep a capture from finishing.
LiveCaptureCompletes ==
    \A i \in Caps :
        (i <= Len(caps) /\ caps[i].cl.isPlaying)
            ~> (i <= Len(caps) /\ caps[i].restored)

====
